---------------------------- MODULE Spec2Model ----------------------------
(***************************************************************************)
(* ZeroSight (src/app.py): the rule-based URL classifier classify_link,    *)
(* its hostname normaliser parse_hostname, and the Flask handlers that     *)
(* keep the recent results in the process-wide list SAMPLES.               *)
(*                                                                         *)
(* Python strings are TLA+ strings (sequences of characters); s[i:j] is    *)
(* SubSeq.  Indices are 1-based here, 0 stands for Python's "not found".   *)
(* The characters considered are printable ASCII; the only whitespace is   *)
(* the space.                                                              *)
(***************************************************************************)
EXTENDS Integers, Sequences, FiniteSets, TLC

VARIABLES
    url,        \* classifier run: the raw input string
    done,       \* classifier run: which of the two functions have been called
    host,       \* classifier run: what parse_hostname(url) returned
    result,     \* classifier run: what classify_link(url) returned
    exc,        \* classifier run: the exception that escaped a call, "" for none
    SAMPLES,    \* app.py:20, the process-wide list of recent results
    clock,      \* the reading of time.time() (app.py:54)
    pc,         \* per request handler: its position in api_check_link
    req,        \* per request handler: the JSON payload it was given
    local,      \* per request handler: its local variable `result`
    resp,       \* per request handler: the response it returned last
    latest,     \* the body of the last /api/latest response
    appended,   \* history: every result appended to SAMPLES, in append order
    received,   \* history: number of /api/check_link requests received so far
    calls       \* history: number of classify_link calls the handlers have made

vars == <<url, done, host, result, exc, SAMPLES, clock, pc, req, local, resp,
          latest, appended, received, calls>>

---------------------------------------------------------------------------
(* Python str helpers                                                      *)

\* s[i-1], and "" past either end
Char(s, i) == IF 1 <= i /\ i <= Len(s) THEN SubSeq(s, i, i) ELSE ""

Max(a, b) == IF a >= b THEN a ELSE b

Min(a, b) == IF a <= b THEN a ELSE b

\* the least and the greatest index of a set of indices, 0 for none
FirstOf(S) == IF S = {} THEN 0 ELSE CHOOSE i \in S : \A j \in S : i <= j

LastOf(S) == IF S = {} THEN 0 ELSE CHOOSE i \in S : \A j \in S : i >= j

\* s[i-1:] (1-based i)
From(s, i) == SubSeq(s, i, Len(s))

\* the indices at which p occurs in s
Occurrences(s, p) == {i \in 1..(Len(s) - Len(p) + 1) : SubSeq(s, i, i + Len(p) - 1) = p}

\* s.find(p) + 1: the lowest index at which p occurs, else 0
Find(s, p) == FirstOf(Occurrences(s, p))

\* s.rfind(p) + 1
RFind(s, p) == LastOf(Occurrences(s, p))

\* p in s
Contains(s, p) == Occurrences(s, p) # {}

\* s.endswith(p)
EndsWith(s, p) == Len(p) <= Len(s) /\ SubSeq(s, Len(s) - Len(p) + 1, Len(s)) = p

\* s.startswith(p)
StartsWith(s, p) == Len(p) <= Len(s) /\ SubSeq(s, 1, Len(p)) = p

\* s.count(c) for a one-character c
Count(s, c) == Cardinality({i \in 1..Len(s) : Char(s, i) = c})

UpperToLower ==
    [c \in {"A","B","C","D","E","F","G","H","I","J","K","L","M","N","O","P","Q",
            "R","S","T","U","V","W","X","Y","Z"} |->
        CASE c = "A" -> "a" [] c = "B" -> "b" [] c = "C" -> "c" [] c = "D" -> "d"
          [] c = "E" -> "e" [] c = "F" -> "f" [] c = "G" -> "g" [] c = "H" -> "h"
          [] c = "I" -> "i" [] c = "J" -> "j" [] c = "K" -> "k" [] c = "L" -> "l"
          [] c = "M" -> "m" [] c = "N" -> "n" [] c = "O" -> "o" [] c = "P" -> "p"
          [] c = "Q" -> "q" [] c = "R" -> "r" [] c = "S" -> "s" [] c = "T" -> "t"
          [] c = "U" -> "u" [] c = "V" -> "v" [] c = "W" -> "w" [] c = "X" -> "x"
          [] c = "Y" -> "y" [] c = "Z" -> "z"]

IsUpper(c) == c \in DOMAIN UpperToLower

IsLower(c) == c \in {"a","b","c","d","e","f","g","h","i","j","k","l","m","n","o",
                     "p","q","r","s","t","u","v","w","x","y","z"}

IsAlpha(c) == IsUpper(c) \/ IsLower(c)

\* the regular expression class \d
IsDigit(c) == c \in {"0","1","2","3","4","5","6","7","8","9"}

\* the regular expression class \w
IsWord(c) == IsAlpha(c) \/ IsDigit(c) \/ c = "_"

IsHexDigit(c) == IsDigit(c) \/ c \in {"a","b","c","d","e","f","A","B","C","D","E","F"}

IsSpace(c) == c = " "

\* s.lower()
RECURSIVE Lower(_)
Lower(s) ==
    IF s = "" THEN ""
    ELSE IF Len(s) = 1 THEN (IF IsUpper(s) THEN UpperToLower[s] ELSE s)
    ELSE Lower(SubSeq(s, 1, Len(s) \div 2)) \o Lower(From(s, Len(s) \div 2 + 1))

\* the indices of the characters of s that are not whitespace
Inked(s) == {i \in 1..Len(s) : ~IsSpace(Char(s, i))}

\* s without the whitespace before its first and after its last inked index
StripTo(s, inked) == IF inked = {} THEN "" ELSE SubSeq(s, FirstOf(inked), LastOf(inked))

\* s.strip()
Strip(s) == StripTo(s, Inked(s))

\* s.lstrip()
LStripTo(s, inked) == IF inked = {} THEN "" ELSE From(s, FirstOf(inked))

LStrip(s) == LStripTo(s, Inked(s))

\* s.split(c) and re.split(r"[...]", s): the pieces of s between the characters
\* of the set seps, empty pieces included; SplitAt cuts at index i, the first
\* separator
RECURSIVE SplitOn(_, _)
RECURSIVE SplitAt(_, _, _)
SplitAt(s, seps, i) ==
    IF i = 0 THEN <<s>> ELSE <<SubSeq(s, 1, i - 1)>> \o SplitOn(From(s, i + 1), seps)

SplitOn(s, seps) == SplitAt(s, seps, FirstOf({i \in 1..Len(s) : Char(s, i) \in seps}))

\* sep.join(parts)
RECURSIVE Join(_, _)
Join(parts, sep) ==
    IF parts = <<>> THEN ""
    ELSE IF Len(parts) = 1 THEN parts[1]
    ELSE parts[1] \o sep \o Join(Tail(parts), sep)

\* s[:i-1] and s[i-1+n:] around an occurrence at index i (i = 0: no occurrence)
BeforeIndex(s, i) == IF i = 0 THEN s ELSE SubSeq(s, 1, i - 1)

AfterIndex(s, i, n) == IF i = 0 THEN "" ELSE From(s, i + n)

\* s.partition(c)[0] and s.partition(c)[2]
PartBefore(s, c) == BeforeIndex(s, Find(s, c))

PartAfter(s, c) == AfterIndex(s, Find(s, c), Len(c))

\* s.rpartition(c)[2]
RPartAfter(s, c) == IF Contains(s, c) THEN From(s, RFind(s, c) + Len(c)) ELSE s

\* [x for x in seq if x]
RECURSIVE NonEmpty(_)
NonEmpty(seq) ==
    IF seq = <<>> THEN <<>>
    ELSE (IF seq[1] = "" THEN <<>> ELSE <<seq[1]>>) \o NonEmpty(Tail(seq))

---------------------------------------------------------------------------
(* Config / tunable lists, app.py:20-35                                    *)

MAX_SAMPLES == 1000

SUSPICIOUS_HOSTINGS ==
    <<"trycloudflare.com", "workers.dev", "pages.dev", "vercel.app",
      "netlify.app", "ngrok.io", "herokuapp.com", "github.io", "pagekite.me">>

BRAND_TOKENS ==
    <<"instagram", "paypal", "google", "facebook", "amazon", "microsoft",
      "sbi", "hdfc", "icici", "bank", "upi", "gmail", "otp">>

SHORTENERS == <<"bit.ly", "tinyurl", "t.co", "is.gd", "rb.gy", "ow.ly">>

PHISH_KEYWORDS ==
    <<"verify", "login", "reset", "auth", "secure", "confirm", "payment",
      "account", "signin", "password", "otp">>

\* s[i..] starts with 1 to 3 digits: the lengths \d{1,3} can take there
DigitRuns(s, i) == {n \in 1..3 : \A k \in i..(i + n - 1) : IsDigit(Char(s, k))}

\* \b at the gap before position i of s
WordBoundary(s, i) == IsWord(Char(s, i - 1)) # IsWord(Char(s, i))

\* the rest of IP_RE from position i on: k more groups \.\d{1,3}, then \b
RECURSIVE QuadTail(_, _, _)
QuadTail(s, i, k) ==
    IF k = 0 THEN WordBoundary(s, i)
    ELSE Char(s, i) = "." /\ \E n \in DigitRuns(s, i + 1) : QuadTail(s, i + 1 + n, k - 1)

\* IP_RE.search(s) is not None, IP_RE = \b\d{1,3}(?:\.\d{1,3}){3}\b
IP_RE_search(s) ==
    \E i \in 1..Len(s) :
        WordBoundary(s, i) /\ \E n \in DigitRuns(s, i) : QuadTail(s, i + n, 3)

\* re.search(r":\d{2,5}", s) is not None
PORT_RE_search(s) ==
    \E i \in 1..Len(s) :
        Char(s, i) = ":" /\ IsDigit(Char(s, i + 1)) /\ IsDigit(Char(s, i + 2))

---------------------------------------------------------------------------
(* urllib.parse.urlparse as app.py:47-48 uses it (CPython 3.11): whether   *)
(* it raises ValueError, and the .hostname of what it returns              *)

\* scheme_chars of urllib.parse
IsSchemeChar(c) == IsAlpha(c) \/ IsDigit(c) \/ c \in {"+", "-", "."}

\* one octet of a dotted quad: 1 to 3 digits, no leading zero, at most 255
IsOctet(o) ==
    /\ Len(o) \in 1..3
    /\ \A j \in 1..Len(o) : IsDigit(Char(o, j))
    /\ Len(o) > 1 => Char(o, 1) # "0"
    /\ Len(o) = 3 =>
         \/ Char(o, 1) = "1"
         \/ Char(o, 1) = "2" /\ Char(o, 2) \in {"0","1","2","3","4"}
         \/ Char(o, 1) = "2" /\ Char(o, 2) = "5" /\ Char(o, 3) \in {"0","1","2","3","4","5"}

IsOctets(octets) == Len(octets) = 4 /\ \A k \in 1..4 : IsOctet(octets[k])

\* ipaddress.IPv4Address(s) accepts s
IsIPv4(s) == IsOctets(SplitOn(s, {"."}))

IsHextet(p) == Len(p) \in 1..4 /\ \A j \in 1..Len(p) : IsHexDigit(Char(p, j))

\* the hextets parts, with '::' at the empty part parts[skip]
IsCompressed(parts, n, skip) ==
    /\ parts[1] = "" => skip = 2
    /\ parts[n] = "" => skip = n - 1
    /\ (IF parts[1] = "" THEN skip - 2 ELSE skip - 1)
         + (IF parts[n] = "" THEN n - skip - 1 ELSE n - skip) <= 7
    /\ \A i \in 1..n :
         (i # skip /\ ~(i = 1 /\ parts[1] = "") /\ ~(i = n /\ parts[n] = ""))
            => IsHextet(parts[i])

\* the hextets parts, whose empty inner parts are at the indices skips
IsHextets(parts, skips) ==
    /\ Len(parts) <= 9
    /\ Cardinality(skips) <= 1
    /\ IF skips # {}
       THEN IsCompressed(parts, Len(parts), FirstOf(skips))
       ELSE Len(parts) = 8 /\ \A i \in 1..8 : IsHextet(parts[i])

\* the pieces between ':', a dotted-quad tail standing for two hextets
IsIPv6Parts(raw) ==
    /\ Len(raw) >= 3
    /\ IF Contains(raw[Len(raw)], ".")
       THEN /\ IsIPv4(raw[Len(raw)])
            /\ IsHextets(SubSeq(raw, 1, Len(raw) - 1) \o <<"0", "0">>,
                         {i \in 2..Len(raw) : raw[i] = "" /\ i < Len(raw)})
       ELSE IsHextets(raw, {i \in 2..(Len(raw) - 1) : raw[i] = ""})

\* ipaddress.ip_address(s) returns an IPv6Address: hextets separated by ':',
\* at most one '::', an optional dotted-quad tail, an optional '%' with a
\* non-empty scope id that holds no '%'
IsIPv6(s) ==
    /\ Contains(s, "%") => (PartAfter(s, "%") # "" /\ ~Contains(PartAfter(s, "%"), "%"))
    /\ IsIPv6Parts(SplitOn(PartBefore(s, "%"), {":"}))

\* _check_bracketed_host(h) returns without raising
BracketedHostOk(h) ==
    IF StartsWith(h, "v")
    THEN \* re.match(r"\Av[a-fA-F0-9]+\..+\Z", h)
         \E d \in 3..(Len(h) - 1) :
             /\ Char(h, d) = "."
             /\ \A j \in 2..(d - 1) : IsHexDigit(Char(h, j))
    ELSE IsIPv6(h)

\* urlsplit takes the scheme off u: u[:i-1] is a scheme when i is the index
\* of the first ':'
HasScheme(u, i) ==
    i > 1 /\ IsAlpha(Char(u, 1)) /\ \A k \in 1..(i - 1) : IsSchemeChar(Char(u, k))

AfterScheme(u, i) == IF HasScheme(u, i) THEN From(u, i + 1) ELSE u

\* _splitnetloc(rest, 2)[0], delim the index of the first of "/?#" from 3 on
NetlocTo(rest, delim) == SubSeq(rest, 3, IF delim = 0 THEN Len(rest) ELSE delim - 1)

Netloc(rest) ==
    IF StartsWith(rest, "//")
    THEN NetlocTo(rest, FirstOf({k \in 3..Len(rest) : Char(rest, k) \in {"/", "?", "#"}}))
    ELSE ""

\* urlsplit raises ValueError for this netloc
NetlocRaises(netloc) ==
    \/ Contains(netloc, "[") # Contains(netloc, "]")
    \/ /\ Contains(netloc, "[")
       /\ ~BracketedHostOk(PartBefore(PartAfter(netloc, "["), "]"))

\* urlsplit(u): the netloc it finds, or that it raises ValueError
SplitResult(netloc) == [raises |-> NetlocRaises(netloc), netloc |-> netloc]

SplitStripped(u) == SplitResult(Netloc(AfterScheme(u, Find(u, ":"))))

urlsplit(u) == SplitStripped(LStrip(u))

\* hostname.lower() but for a scope id, which is kept as written
LowerButZone(name) ==
    IF name = "" THEN ""
    ELSE Lower(PartBefore(name, "%"))
         \o (IF Contains(name, "%") THEN "%" ELSE "") \o PartAfter(name, "%")

HostOfInfo(hostinfo) ==
    IF Contains(hostinfo, "[")
    THEN PartBefore(PartAfter(hostinfo, "["), "]")
    ELSE PartBefore(hostinfo, ":")

\* the .hostname of a parse result with this netloc, None being ""
hostname(netloc) == LowerButZone(HostOfInfo(RPartAfter(netloc, "@")))

---------------------------------------------------------------------------
(* Helpers, app.py:40-54                                                   *)

\* `except Exception` (app.py:49) catches exception e
\* a faulty variant of ExceptException: an `except` clause that catches nothing
ExceptNothing(e) == FALSE

ExceptException(e) == TRUE

\* u if "://" in u else "https://" + u, app.py:47
WithScheme(u) == IF Contains(u, "://") THEN u ELSE "https://" \o u

\* u.split("/")[0].lower(), app.py:51
Fallback(u) == Lower(SplitOn(u, {"/"})[1])

\* the try statement of app.py:45-51 for the stripped input u, parsed being
\* what urlparse made of it: the exception that escapes ("" for none) and
\* the value returned
TryParse(u, parsed) ==
    IF ~parsed.raises THEN [exc |-> "", value |-> Lower(hostname(parsed.netloc))]
    ELSE IF ExceptException("ValueError") THEN [exc |-> "", value |-> Fallback(u)]
    ELSE [exc |-> "ValueError", value |-> ""]

ParseStripped(u) ==
    IF u = "" THEN [exc |-> "", value |-> ""] ELSE TryParse(u, urlsplit(WithScheme(u)))

\* parse_hostname(url), app.py:40-51
parse_hostname(raw) == ParseStripped(Strip(raw))

---------------------------------------------------------------------------
(* Core classifier, app.py:59-154.  The running pair (score, reasons) is a *)
(* record st; each rule maps the pair before it to the pair after it.      *)

\* a faulty variant of Flag: the score keeps the largest delta, not the sum
FlagLargest(st, delta, reason) ==
    [score |-> Max(st.score, delta), reasons |-> Append(st.reasons, reason)]

\* score += delta; reasons.append(reason)
Flag(st, delta, reason) ==
    [score |-> st.score + delta, reasons |-> Append(st.reasons, reason)]

\* 1) direct IP in host, app.py:72-75
Rule1(st, raw, h) ==
    IF IP_RE_search(h)
    THEN Flag(st, 40, "Direct IP address used in host (not a normal domain)")
    ELSE st

\* 2) explicit port, app.py:77-81
Rule2(st, raw, h) ==
    IF PORT_RE_search(raw)
    THEN Flag(st, 12, "Explicit port present in URL (uncommon for legitimate sites)")
    ELSE st

\* `for eh in SUSPICIOUS_HOSTINGS` from index i on, app.py:84-88
RECURSIVE Rule3From(_, _, _)
Rule3From(st, h, i) ==
    IF i > Len(SUSPICIOUS_HOSTINGS) THEN st
    ELSE IF h = SUSPICIOUS_HOSTINGS[i] \/ EndsWith(h, "." \o SUSPICIOUS_HOSTINGS[i])
    THEN Flag(st, 35, "Hosted on ephemeral/third-party platform: " \o SUSPICIOUS_HOSTINGS[i])
    ELSE Rule3From(st, h, i + 1)

\* 3) ephemeral / third-party hosting platforms, app.py:83-88
Rule3(st, raw, h) == Rule3From(st, h, 1)

\* labels = host.split(".") if host else [], app.py:91
Labels(h) == IF h = "" THEN <<>> ELSE SplitOn(h, {"."})

\* sub = ".".join(labels[:-2]), app.py:93
Sub(labels) == Join(SubSeq(labels, 1, Len(labels) - 2), ".")

\* very long subdomain, app.py:95-97
Rule4a(st, sub) ==
    IF Len(sub) > 30
    THEN Flag(st, 15, "Very long subdomain (unusually long host label)")
    ELSE st

\* a faulty variant of Rule4b: the hyphen count is never looked at
Rule4bSkipped(st, sub) == st

\* many hyphens, app.py:99-101
Rule4b(st, sub) ==
    IF Count(sub, "-") >= 2
    THEN Flag(st, 12, "Multiple hyphens in subdomain (common in phishing hosts)")
    ELSE st

\* many tokens (multi-word), app.py:103-106
Rule4c(st, sub) ==
    IF Len(NonEmpty(SplitOn(sub, {"-", "_", "."}))) >= 3
    THEN Flag(st, 18, "Multi-word / token-rich subdomain (likely not a normal brand hostname)")
    ELSE st

\* a faulty variant of Rule4dFrom: the token is not compared with the SLD
RECURSIVE Rule4dFromAnySld(_, _, _, _)
Rule4dFromAnySld(st, low_sub, sld, i) ==
    IF i > Len(BRAND_TOKENS) THEN st
    ELSE IF Contains(low_sub, BRAND_TOKENS[i])
    THEN Flag(st, 40, "Brand impersonation detected: '" \o BRAND_TOKENS[i]
                      \o "' appears in subdomain while parent domain is not '"
                      \o BRAND_TOKENS[i] \o "'")
    ELSE Rule4dFromAnySld(st, low_sub, sld, i + 1)

\* `for b in BRAND_TOKENS` from index i on, app.py:111-116
RECURSIVE Rule4dFrom(_, _, _, _)
Rule4dFrom(st, low_sub, sld, i) ==
    IF i > Len(BRAND_TOKENS) THEN st
    ELSE IF Contains(low_sub, BRAND_TOKENS[i]) /\ BRAND_TOKENS[i] # sld
    THEN Flag(st, 40, "Brand impersonation detected: '" \o BRAND_TOKENS[i]
                      \o "' appears in subdomain while parent domain is not '"
                      \o BRAND_TOKENS[i] \o "'")
    ELSE Rule4dFrom(st, low_sub, sld, i + 1)

\* brand impersonation: brand token in subdomain but not in SLD, app.py:108-116
Rule4d(st, sub, labels) ==
    Rule4dFrom(st, Lower(sub), IF Len(labels) >= 2 THEN labels[Len(labels) - 1] ELSE "", 1)

\* the body of `if len(labels) >= 3`, app.py:93-116
Rule4Sub(st, sub, labels) == Rule4d(Rule4c(Rule4b(Rule4a(st, sub), sub), sub), sub, labels)

Rule4Labels(st, labels) == IF Len(labels) >= 3 THEN Rule4Sub(st, Sub(labels), labels) ELSE st

\* 4) subdomain analysis, app.py:90-116
Rule4(st, raw, h) == Rule4Labels(st, Labels(h))

\* 5) punycode / IDN tricks, app.py:118-121
Rule5(st, raw, h) ==
    IF Contains(h, "xn--")
    THEN Flag(st, 25, "Punycode/IDN detected (possible homoglyph / homograph attack)")
    ELSE st

\* `for s in SHORTENERS` from index i on, app.py:124-128
RECURSIVE Rule6From(_, _, _)
Rule6From(st, low, i) ==
    IF i > Len(SHORTENERS) THEN st
    ELSE IF Contains(low, SHORTENERS[i])
    THEN Flag(st, 30, "Uses known link shortener: " \o SHORTENERS[i])
    ELSE Rule6From(st, low, i + 1)

\* 6) known link shorteners, app.py:123-128
Rule6(st, raw, h) == Rule6From(st, Lower(raw), 1)

\* a faulty variant of Rule7From: the loop has no break
RECURSIVE Rule7FromNoBreak(_, _, _)
Rule7FromNoBreak(st, low, i) ==
    IF i > Len(PHISH_KEYWORDS) THEN st
    ELSE IF Contains(low, PHISH_KEYWORDS[i])
    THEN Rule7FromNoBreak(
             Flag(st, 15, "Contains phishing-related keyword: '" \o PHISH_KEYWORDS[i] \o "'"),
             low, i + 1)
    ELSE Rule7FromNoBreak(st, low, i + 1)

\* `for k in PHISH_KEYWORDS` from index i on, app.py:132-136
RECURSIVE Rule7From(_, _, _)
Rule7From(st, low, i) ==
    IF i > Len(PHISH_KEYWORDS) THEN st
    ELSE IF Contains(low, PHISH_KEYWORDS[i])
    THEN Flag(st, 15, "Contains phishing-related keyword: '" \o PHISH_KEYWORDS[i] \o "'")
    ELSE Rule7From(st, low, i + 1)

\* 7) phishing keywords in path or query, app.py:130-136
Rule7(st, raw, h) == Rule7From(st, Lower(raw), 1)

\* a faulty variant of Clamp: no upper bound
ClampBelow(score) == Max(0, score)

\* clamp score, app.py:139
Clamp(score) == Max(0, Min(100, score))

\* app.py:141-145
Level(score) == IF score >= 70 THEN "HIGH" ELSE IF score >= 35 THEN "MEDIUM" ELSE "SAFE"

\* the rules in the order of app.py:72-136
Rules(raw, h) ==
    Rule7(Rule6(Rule5(Rule4(Rule3(Rule2(Rule1([score |-> 0, reasons |-> <<>>],
        raw, h), raw, h), raw, h), raw, h), raw, h), raw, h), raw, h)

\* app.py:138-154 for the final score and reasons
Verdict(raw, h, score, reasons, now) ==
    [url     |-> raw,
     host    |-> h,
     score   |-> score,
     level   |-> Level(score),
     reasons |-> reasons,
     ts      |-> now]

Classified(raw, h, st, now) == Verdict(raw, h, Clamp(st.score), st.reasons, now)

\* classify_link(url) once parse_hostname has returned h, app.py:69-154
ClassifyHost(raw, h, now) == Classified(raw, h, Rules(raw, h), now)

\* classify_link(url), app.py:59-154: the exception that escapes ("" for
\* none; only parse_hostname could raise, the rest are str methods and
\* re.search on a str) and the value returned; now is what now_ts() reads
Classify(raw, parsed, now) ==
    IF parsed.exc # "" THEN [exc |-> parsed.exc, value |-> Verdict(raw, "", 0, <<>>, now)]
    ELSE [exc |-> "", value |-> ClassifyHost(raw, parsed.value, now)]

classify_link(raw, now) == Classify(raw, parse_hostname(raw), now)

---------------------------------------------------------------------------
(* The inputs of a classifier run                                          *)

\* longest string enumerated over Alphabet
MaxLen == 3

\* most subdomain labels put in front of a parent domain
MaxSubLabels == 2

\* the characters URL parsing treats specially, a letter and a digit
Alphabet == {"a", "1", ".", ":", "/", "@", "[", "]"}

\* every string over Alphabet of length at most n
RECURSIVE StringsUpTo(_)
StringsUpTo(n) ==
    IF n = 0 THEN {""}
    ELSE LET shorter == StringsUpTo(n - 1)
         IN  shorter \cup {t \o c : t \in shorter, c \in Alphabet}

SubLabels == {"paypal", "secure-login-verify"}

ParentDomains == {"example.com", "paypal.com", "trycloudflare.com"}

\* sub.sub.parent with at most n subdomain labels
RECURSIVE Subdomains(_)
Subdomains(n) ==
    IF n = 0 THEN ParentDomains
    ELSE LET fewer == Subdomains(n - 1)
         IN  fewer \cup {l \o "." \o d : l \in SubLabels, d \in fewer}

Hosts ==
    Subdomains(MaxSubLabels) \cup
    { "paypal.security-check.net", "PayPal.Evil.Example.COM",
      "paypal-secure-login.trycloudflare.com", "paypal-bank.otp.example.com",
      "a_b.c-d.example.com", "my-app.github.io", "192.168.1.10", "bit.ly",
      "xn--pypal-4ve.com", "www.google.com", "paypal.com.",
      "account-update-confirm-identity-now.example.com",
      "[::1]", "[::1", "pay]pal.example.com", "" }

Schemes == {"", "https://", "HTTP://"}

Credentials == {"", "user:pw@"}

Ports == {"", ":8080"}

Paths == {"", "/login", "/t.co/bit.ly?next=Verify"}

Paddings == {"", " "}

Inputs ==
    StringsUpTo(MaxLen) \cup
    { pad \o sch \o cred \o h \o port \o path \o pad :
        pad \in Paddings, sch \in Schemes, cred \in Credentials,
        h \in Hosts, port \in Ports, path \in Paths }

---------------------------------------------------------------------------
(* A classifier run: one input string, on which parse_hostname and         *)
(* classify_link are each called once, in either order                     *)

NoResult == [url |-> "", host |-> "", score |-> 0, level |-> "", reasons |-> <<>>, ts |-> 0]

NoRequest == [object |-> FALSE, has_url |-> FALSE, url |-> ""]

NoResponse == [status |-> 0, error |-> "", body |-> NoResult]

\* most request handlers running at once
NumHandlers == 2

Handlers == 1..NumHandlers

ServerIdle ==
    /\ SAMPLES = <<>>
    /\ clock = 0
    /\ pc = [h \in Handlers |-> "idle"]
    /\ req = [h \in Handlers |-> NoRequest]
    /\ local = [h \in Handlers |-> NoResult]
    /\ resp = [h \in Handlers |-> NoResponse]
    /\ latest = <<>>
    /\ appended = <<>>
    /\ received = 0
    /\ calls = 0

serverVars == <<SAMPLES, clock, pc, req, local, resp, latest, appended, received, calls>>

classifierVars == <<url, done, host, result, exc>>

Init ==
    /\ url \in Inputs
    /\ done = {}
    /\ host = ""
    /\ result = NoResult
    /\ exc = ""
    /\ ServerIdle

\* a call returns out.value, or lets out.exc escape
Returned(out, old) == IF out.exc = "" THEN out.value ELSE old

Escaped(out, old) == IF out.exc = "" THEN old ELSE out.exc

\* host = parse_hostname(url)
ParseHostnameReturns(out) ==
    /\ exc' = Escaped(out, exc)
    /\ host' = Returned(out, host)

CallParseHostname ==
    /\ "parse_hostname" \notin done
    /\ done' = done \cup {"parse_hostname"}
    /\ ParseHostnameReturns(parse_hostname(url))
    /\ UNCHANGED <<url, result>>
    /\ UNCHANGED serverVars

\* result = classify_link(url)
ClassifyLinkReturns(out) ==
    /\ exc' = Escaped(out, exc)
    /\ result' = Returned(out, result)

CallClassifyLink ==
    /\ "classify_link" \notin done
    /\ done' = done \cup {"classify_link"}
    /\ ClassifyLinkReturns(classify_link(url, clock))
    /\ UNCHANGED <<url, host>>
    /\ UNCHANGED serverVars

Next == CallParseHostname \/ CallClassifyLink

Spec == Init /\ [][Next]_vars

---------------------------------------------------------------------------
(* Properties of the classifier, checked under Spec                        *)

ParseHostnameReturned == "parse_hostname" \in done /\ exc = ""

ClassifyLinkReturned == "classify_link" \in done /\ exc = ""

\* the rules in their evaluation order, and the delta of each
RuleOrder == <<"1", "2", "3", "4a", "4b", "4c", "4d", "5", "6", "7">>

RuleNames == {RuleOrder[i] : i \in DOMAIN RuleOrder}

Delta ==
    [r \in RuleNames |->
        CASE r = "1" -> 40 [] r = "2" -> 12 [] r = "3" -> 35 [] r = "4a" -> 15
          [] r = "4b" -> 12 [] r = "4c" -> 18 [] r = "4d" -> 40 [] r = "5" -> 25
          [] r = "6" -> 30 [] r = "7" -> 15]

\* how the reason of each rule begins
ReasonPrefix ==
    [r \in RuleNames |->
        CASE r = "1" -> "Direct IP address used in host"
          [] r = "2" -> "Explicit port present in URL"
          [] r = "3" -> "Hosted on ephemeral/third-party platform: "
          [] r = "4a" -> "Very long subdomain"
          [] r = "4b" -> "Multiple hyphens in subdomain"
          [] r = "4c" -> "Multi-word / token-rich subdomain"
          [] r = "4d" -> "Brand impersonation detected: '"
          [] r = "5" -> "Punycode/IDN detected"
          [] r = "6" -> "Uses known link shortener: "
          [] r = "7" -> "Contains phishing-related keyword: '"]

\* the rule a reason belongs to, "?" if none
RuleOfReason(reason) ==
    IF \E r \in RuleNames : StartsWith(reason, ReasonPrefix[r])
    THEN CHOOSE r \in RuleNames : StartsWith(reason, ReasonPrefix[r])
    ELSE "?"

\* the rules the reasons of the result name, in the order of the reasons
RulesNamed == [i \in DOMAIN result.reasons |-> RuleOfReason(result.reasons[i])]

\* the candidates of rules 3, 4d, 6 and 7 that match, as indices of their lists
HostingMatches(h) ==
    {i \in DOMAIN SUSPICIOUS_HOSTINGS :
        h = SUSPICIOUS_HOSTINGS[i] \/ EndsWith(h, "." \o SUSPICIOUS_HOSTINGS[i])}

\* the brand tokens that are a substring of low_sub and differ from sld
BrandsIn(low_sub, sld) ==
    {i \in DOMAIN BRAND_TOKENS : Contains(low_sub, BRAND_TOKENS[i]) /\ BRAND_TOKENS[i] # sld}

\* the brand tokens that are a substring of the subdomain portion (all labels
\* but the last two, compared in lower case) and differ from the
\* second-level-domain label, for a host of at least 3 labels
BrandMatches(labels) ==
    IF Len(labels) < 3 THEN {}
    ELSE BrandsIn(Lower(Sub(labels)), labels[Len(labels) - 1])

ShortenerMatches(low) == {i \in DOMAIN SHORTENERS : Contains(low, SHORTENERS[i])}

KeywordMatches(low) == {i \in DOMAIN PHISH_KEYWORDS : Contains(low, PHISH_KEYWORDS[i])}

\* the subdomain portion of a host of at least 3 labels, as a sequence of one
\* string; the empty sequence for a shorter host
Subdomain(labels) == IF Len(labels) >= 3 THEN <<Sub(labels)>> ELSE <<>>

\* the condition under which each rule fires: raw is the input, low the input
\* in lower case, h the host and labels its dot-separated labels
Fires(r, raw, low, h, labels, subs) ==
    CASE r = "1" -> IP_RE_search(h)
      [] r = "2" -> PORT_RE_search(raw)
      [] r = "3" -> HostingMatches(h) # {}
      [] r = "4a" -> subs # <<>> /\ Len(subs[1]) > 30
      [] r = "4b" -> subs # <<>> /\ Count(subs[1], "-") >= 2
      [] r = "4c" -> subs # <<>> /\ Len(NonEmpty(SplitOn(subs[1], {"-", "_", "."}))) >= 3
      [] r = "4d" -> BrandMatches(labels) # {}
      [] r = "5" -> Contains(h, "xn--")
      [] r = "6" -> ShortenerMatches(low) # {}
      [] r = "7" -> KeywordMatches(low) # {}

\* the reason a rule that fires gives: for a rule with candidates, that of
\* the first match in the order of its list
ReasonOf(r, low, h, labels) ==
    CASE r = "1" -> "Direct IP address used in host (not a normal domain)"
      [] r = "2" -> "Explicit port present in URL (uncommon for legitimate sites)"
      [] r = "3" -> "Hosted on ephemeral/third-party platform: "
                    \o SUSPICIOUS_HOSTINGS[FirstOf(HostingMatches(h))]
      [] r = "4a" -> "Very long subdomain (unusually long host label)"
      [] r = "4b" -> "Multiple hyphens in subdomain (common in phishing hosts)"
      [] r = "4c" -> "Multi-word / token-rich subdomain (likely not a normal brand hostname)"
      [] r = "4d" -> "Brand impersonation detected: '"
                     \o BRAND_TOKENS[FirstOf(BrandMatches(labels))]
                     \o "' appears in subdomain while parent domain is not '"
                     \o BRAND_TOKENS[FirstOf(BrandMatches(labels))] \o "'"
      [] r = "5" -> "Punycode/IDN detected (possible homoglyph / homograph attack)"
      [] r = "6" -> "Uses known link shortener: " \o SHORTENERS[FirstOf(ShortenerMatches(low))]
      [] r = "7" -> "Contains phishing-related keyword: '"
                    \o PHISH_KEYWORDS[FirstOf(KeywordMatches(low))] \o "'"

FiredOf(raw, low, h, labels, subs) ==
    SelectSeq(RuleOrder, LAMBDA r : Fires(r, raw, low, h, labels, subs))

FiredFor(raw, h, labels) == FiredOf(raw, Lower(raw), h, labels, Subdomain(labels))

\* the rules that fire for the input of the run, in evaluation order
FiredRules == FiredFor(url, result.host, Labels(result.host))

RECURSIVE SumOfDeltas(_)
SumOfDeltas(rules) ==
    IF rules = <<>> THEN 0 ELSE Delta[Head(rules)] + SumOfDeltas(Tail(rules))

ReasonsOf(fired, low, labels) ==
    [i \in DOMAIN fired |-> ReasonOf(fired[i], low, result.host, labels)]

\* the reasons of the result are those of the rules `fired`, one each, in order
ReasonsAre(fired) ==
    /\ Len(result.reasons) = Len(fired)
    /\ RulesNamed = fired
    /\ result.reasons = ReasonsOf(fired, Lower(url), Labels(result.host))

\* C1: for every input, the score of the result of classify_link is an
\* integer between 0 and 100, and the level is HIGH when score >= 70, MEDIUM
\* when 35 <= score < 70, and SAFE otherwise.
C1_ScoreRangeAndLevel ==
    ClassifyLinkReturned =>
        /\ result.score \in 0..100
        /\ result.level \in {"HIGH", "MEDIUM", "SAFE"}
        /\ result.level = "HIGH" <=> result.score >= 70
        /\ result.level = "MEDIUM" <=> (35 <= result.score /\ result.score < 70)
        /\ result.level = "SAFE" <=> result.score < 35

\* a run whose raw sum is above 100 has returned the score 100 and level HIGH
C1_Witness ==
    /\ ClassifyLinkReturned
    /\ Len(result.reasons) >= 5
    /\ result.score = 100
    /\ result.level = "HIGH"

\* the input is empty once stripped
Blank(s) == \A i \in 1..Len(s) : IsSpace(Char(s, i))

\* urlparse raises on the input (with the default scheme put in front of an
\* input without "://")
Unparseable(s) ==
    ~Blank(s) /\ urlsplit(IF Contains(Strip(s), "://") THEN Strip(s)
                          ELSE "https://" \o Strip(s)).raises

\* the stripped input up to its first "/"
BeforeSlash(s) == PartBefore(Strip(s), "/")

NothingFound ==
    /\ result.host = ""
    /\ result.score = 0
    /\ result.level = "SAFE"
    /\ result.reasons = <<>>

SecureLoginVerify == "https://secure-login-verify.trycloudflare.com"

\* C3 as stated: classifying "https://secure-login-verify.trycloudflare.com"
\* fires exactly rules 3, 4c and 7, rule 7 naming the keyword "login", and
\* gives score 68 and level MEDIUM.
C3_AsStated ==
    ClassifyLinkReturned /\ url = SecureLoginVerify =>
        /\ RulesNamed = <<"3", "4c", "7">>
        /\ result.reasons[Len(result.reasons)] = "Contains phishing-related keyword: 'login'"
        /\ result.score = 68
        /\ result.level = "MEDIUM"

\* C3: classifying "https://secure-login-verify.trycloudflare.com" fires
\* exactly rule 3 (+35), rule 4b (two hyphens in the subdomain, +12), rule 4c
\* (+18) and rule 7 (+15, naming "verify", the first keyword of the list the
\* URL contains), giving score 80 and level HIGH.
C3_SecureLoginVerify ==
    ClassifyLinkReturned /\ url = SecureLoginVerify =>
        /\ RulesNamed = <<"3", "4b", "4c", "7">>
        /\ result.reasons[1] = "Hosted on ephemeral/third-party platform: trycloudflare.com"
        /\ result.reasons[4] = "Contains phishing-related keyword: 'verify'"
        /\ result.score = 35 + 12 + 18 + 15
        /\ result.score = 80
        /\ result.level = "HIGH"

C3_Witness ==
    /\ ClassifyLinkReturned
    /\ url = SecureLoginVerify
    /\ result.host = "secure-login-verify.trycloudflare.com"
    /\ Len(result.reasons) = 4

\* C4: rule 4d fires exactly when the host has at least 3 labels and some
\* brand token is a substring of the subdomain portion while that token is
\* not the second-level-domain label; a host of two labels never triggers it
\* (paypal.com), and paypal.security-check.net/login triggers rules 4d and 7.
C4_BrandImpersonation ==
    ClassifyLinkReturned =>
        /\ ("4d" \in {RulesNamed[i] : i \in DOMAIN RulesNamed}) <=> BrandMatches(Labels(result.host)) # {}
        /\ Len(Labels(result.host)) <= 2 => \A i \in DOMAIN RulesNamed : RulesNamed[i] # "4d"
        /\ url = "https://paypal.com" =>
              result.host = "paypal.com" /\ \A i \in DOMAIN RulesNamed : RulesNamed[i] # "4d"
        /\ url = "https://paypal.security-check.net/login" =>
              /\ RulesNamed = <<"4d", "7">>
              /\ result.reasons[2] = "Contains phishing-related keyword: 'login'"

\* the brand token sits in the subdomain of a host whose parent is another domain
C4_Witness ==
    /\ ClassifyLinkReturned
    /\ url = "https://paypal.security-check.net/login"
    /\ result.host = "paypal.security-check.net"
    /\ result.reasons[1] = "Brand impersonation detected: 'paypal' appears in subdomain while parent domain is not 'paypal'"

\* the returned host is an IPv6 address, which urlparse gives without its brackets
IsIPv6Host(h) == Contains(h, ":") /\ IsIPv6(h)

\* C5: for every raw input, malformed ones that take the fallback path
\* included, parse_hostname returns a lowercase hostname with no port, no
\* path, no scheme and no credentials: no "/" and no "@", and no ":" but
\* those of an IPv6 address.
C5_HostOnly ==
    ParseHostnameReturned =>
        /\ host = Lower(host)
        /\ ~Contains(host, "/")
        /\ ~Contains(host, "@")
        /\ Contains(host, ":") => IsIPv6Host(host)

\* C6: the reasons hold exactly one entry per rule that fired, in the order
\* 1, 2, 3, 4a, 4b, 4c, 4d, 5, 6, 7; rules 3, 4d, 6 and 7 give one reason,
\* that of the first match in the order of their list.
C6_ReasonsPerFiredRule == ClassifyLinkReturned => ReasonsAre(FiredRules)

\* a run in which rule 7 had several keywords to choose from and rule 3 fired too
C6_Witness ==
    /\ ClassifyLinkReturned
    /\ Cardinality(KeywordMatches(Lower(url))) >= 2
    /\ HostingMatches(result.host) # {}
    /\ Len(result.reasons) >= 3

\* C7: the score is min(100, sum of the deltas of the rules that fired), the
\* deltas being 40, 12, 35, 15, 12, 18, 40, 25, 30, 15 for rules 1, 2, 3, 4a,
\* 4b, 4c, 4d, 5, 6, 7; rules 4c and 4d both count for the same subdomain.
C7_ClampedSum ==
    ClassifyLinkReturned =>
        /\ result.score = Min(100, SumOfDeltas(FiredRules))
        /\ [i \in DOMAIN RuleOrder |-> Delta[RuleOrder[i]]]
             = <<40, 12, 35, 15, 12, 18, 40, 25, 30, 15>>

\* a run whose raw sum is above 100, with rules 4c and 4d both counted
C7_Witness ==
    /\ ClassifyLinkReturned
    /\ result.score = 100
    /\ SumOfDeltas(FiredRules) > 100
    /\ \E i, j \in DOMAIN FiredRules : FiredRules[i] = "4c" /\ FiredRules[j] = "4d"

---------------------------------------------------------------------------
(* Routes, app.py:163-182.  Flask serves each request on a thread of its   *)
(* own; a handler's steps are the points at which it reads or writes the   *)
(* shared list SAMPLES, and the steps of different handlers interleave.    *)

\* SAMPLES[-200:], app.py:182
LATEST_WINDOW == 200

\* most /api/check_link requests received in a run
MaxRequests == 2

\* the JSON bodies posted: null, {}, and objects with a "url" string
Payloads ==
    { [object |-> FALSE, has_url |-> FALSE, url |-> ""],
      [object |-> TRUE,  has_url |-> FALSE, url |-> ""],
      [object |-> TRUE,  has_url |-> TRUE,  url |-> ""],
      [object |-> TRUE,  has_url |-> TRUE,  url |-> "  "],
      [object |-> TRUE,  has_url |-> TRUE,  url |-> " bit.ly/login "] }

\* a faulty variant of RequestUrl: the url is not stripped
RequestUrlAsSent(p) == IF p.object /\ p.has_url THEN p.url ELSE ""

\* (request.get_json() or {}).get("url", "").strip(), app.py:165-166
RequestUrl(p) == Strip(IF p.object /\ p.has_url THEN p.url ELSE "")

\* seq[-n:]
LastN(seq, n) == SubSeq(seq, Max(1, Len(seq) - n + 1), Len(seq))

\* the result the server stored for a request made at time t
EarlierResult == classify_link("example.com", 0).value

\* SAMPLES after k requests served one after the other, at times 1..k
Earlier(k) == [t \in 1..k |-> [EarlierResult EXCEPT !.ts = t]]

\* how many requests the server has served, one after the other and each to
\* its end, when the run starts
EarlierRequests == {0, MAX_SAMPLES - 1}

ServerInit ==
    /\ url = "" /\ done = {} /\ host = "" /\ result = NoResult /\ exc = ""
    /\ \E k \in EarlierRequests :
         /\ SAMPLES = Earlier(k)
         /\ appended = Earlier(k)
         /\ clock = k + 1
         /\ calls = k
    /\ received = 0
    /\ pc = [h \in Handlers |-> "idle"]
    /\ req = [h \in Handlers |-> NoRequest]
    /\ local = [h \in Handlers |-> NoResult]
    /\ resp = [h \in Handlers |-> NoResponse]
    /\ latest = <<>>

\* Flask hands a POST /api/check_link with JSON body p to handler h
Receive(h, p) ==
    /\ pc[h] = "idle"
    /\ received < MaxRequests
    /\ received' = received + 1
    /\ req' = [req EXCEPT ![h] = p]
    /\ pc' = [pc EXCEPT ![h] = "recv"]
    /\ UNCHANGED <<SAMPLES, clock, local, resp, latest, appended, calls>>
    /\ UNCHANGED classifierVars

\* if not url: return jsonify({"error": "missing url"}), 400; app.py:167-168
Reject(h) ==
    /\ pc[h] = "recv"
    /\ RequestUrl(req[h]) = ""
    /\ resp' = [resp EXCEPT ![h] = [status |-> 400, error |-> "missing url", body |-> NoResult]]
    /\ pc' = [pc EXCEPT ![h] = "idle"]
    /\ UNCHANGED <<SAMPLES, clock, req, local, latest, appended, received, calls>>
    /\ UNCHANGED classifierVars

\* result = classify_link(url), app.py:170; the clock moves on with each reading
ClassifyRequest(h) ==
    /\ pc[h] = "recv"
    /\ RequestUrl(req[h]) # ""
    /\ local' = [local EXCEPT ![h] = classify_link(RequestUrl(req[h]), clock).value]
    /\ clock' = clock + 1
    /\ calls' = calls + 1
    /\ pc' = [pc EXCEPT ![h] = "append"]
    /\ UNCHANGED <<SAMPLES, req, resp, latest, appended, received>>
    /\ UNCHANGED classifierVars

\* SAMPLES.append(result), app.py:173
AppendSample(h) ==
    /\ pc[h] = "append"
    /\ SAMPLES' = Append(SAMPLES, local[h])
    /\ appended' = Append(appended, local[h])
    /\ pc' = [pc EXCEPT ![h] = "check"]
    /\ UNCHANGED <<clock, req, local, resp, latest, received, calls>>
    /\ UNCHANGED classifierVars

\* return jsonify(result), app.py:177
Respond(h) == [resp EXCEPT ![h] = [status |-> 200, error |-> "", body |-> local[h]]]

\* if len(SAMPLES) > MAX_SAMPLES, app.py:174
CheckLength(h) ==
    /\ pc[h] = "check"
    /\ IF Len(SAMPLES) > MAX_SAMPLES
       THEN pc' = [pc EXCEPT ![h] = "pop"] /\ resp' = resp
       ELSE pc' = [pc EXCEPT ![h] = "idle"] /\ resp' = Respond(h)
    /\ UNCHANGED <<SAMPLES, clock, req, local, latest, appended, received, calls>>
    /\ UNCHANGED classifierVars

\* SAMPLES.pop(0), app.py:175; on an empty list it raises IndexError and
\* Flask answers 500
PopOldest(h) ==
    /\ pc[h] = "pop"
    /\ IF SAMPLES = <<>>
       THEN /\ SAMPLES' = SAMPLES
            /\ resp' = [resp EXCEPT ![h] = [status |-> 500, error |-> "IndexError", body |-> NoResult]]
       ELSE /\ SAMPLES' = Tail(SAMPLES)
            /\ resp' = Respond(h)
    /\ pc' = [pc EXCEPT ![h] = "idle"]
    /\ UNCHANGED <<clock, req, local, latest, appended, received, calls>>
    /\ UNCHANGED classifierVars

\* api_check_link, app.py:163-177, one step of handler h
api_check_link(h) ==
    \/ \E p \in Payloads : Receive(h, p)
    \/ Reject(h)
    \/ ClassifyRequest(h)
    \/ AppendSample(h)
    \/ CheckLength(h)
    \/ PopOldest(h)

\* api_latest, app.py:179-182
api_latest ==
    /\ latest' = LastN(SAMPLES, LATEST_WINDOW)
    /\ UNCHANGED <<SAMPLES, clock, pc, req, local, resp, appended, received, calls>>
    /\ UNCHANGED classifierVars

ServerNext == (\E h \in Handlers : api_check_link(h)) \/ api_latest

ServerSpec == ServerInit /\ [][ServerNext]_vars

---------------------------------------------------------------------------
(* Properties of the routes, checked under ServerSpec                      *)

\* the url field of a JSON body is missing, empty or whitespace-only
UrlMissing(p) == ~p.object \/ ~p.has_url \/ \A i \in 1..Len(p.url) : IsSpace(Char(p.url, i))

Rejection == [status |-> 400, error |-> "missing url", body |-> NoResult]

C9_AtMostMaxSamples == Len(SAMPLES) <= MAX_SAMPLES

\* no handler is between its append and its eviction step
NoEvictionPending == \A h \in Handlers : pc[h] \notin {"check", "pop"}

\* the last min(n, MAX_SAMPLES) of the n results appended so far
LastAppended == LastN(appended, Min(Len(appended), MAX_SAMPLES))

\* C10: whenever no handler is between its append and its eviction step,
\* SAMPLES is the last min(n, 1000) results appended so far, in append order,
\* and /api/latest returns the last min(200, len) of them in that order.
C10_LastAppendedKept ==
    NoEvictionPending =>
        /\ SAMPLES = LastAppended
        /\ LastN(SAMPLES, LATEST_WINDOW)
             = LastN(LastAppended, Min(LATEST_WINDOW, Len(LastAppended)))

=============================================================================
